---------------------------- MODULE Spec2Model ----------------------------
(***************************************************************************)
(* A model of src/lib.rs: the two-variant union Either<L, R>, its          *)
(* accessors, its conversions to and from Result, and its forwarding       *)
(* implementations of Iterator, DoubleEndedIterator, ExactSizeIterator,    *)
(* Read, BufRead, Write, AsRef and AsMut.                                  *)
(*                                                                         *)
(* A union value is the record [tag, val].  The variable fam is the type   *)
(* instantiation Either<L, R> the program was compiled with; it fixes the  *)
(* payload type of each variant and the operations that exist.             *)
(***************************************************************************)
EXTENDS Integers, Sequences, FiniteSets

VARIABLES fam, e, orig, log, last, view

vars == <<fam, e, orig, log, last, view>>

---------------------------------------------------------------------------
(* Bounds of the model. *)

MaxPayload == 2

MaxRange == 3

MaxLen == 3

MaxSrc == 2

MaxBuf == 2

MaxSink == 2

MaxCalls == 2

---------------------------------------------------------------------------
(* The enum and the standard two-case types it converts to. *)

Left(l) == [tag |-> "Left", val |-> l]

Right(r) == [tag |-> "Right", val |-> r]

Some(v) == [some |-> TRUE, val |-> v]

None == [some |-> FALSE]

Ok(o) == [kind |-> "Ok", val |-> o]

Err(x) == [kind |-> "Err", err |-> x]

Unit == "()"

---------------------------------------------------------------------------
(* impl<L, R> Either<L, R> *)

is_left(self) ==
    CASE self.tag = "Left" -> TRUE
      [] self.tag = "Right" -> FALSE

is_right(self) == ~is_left(self)

(* A faulty left that unwraps whichever variant is held. *)
left_any(self) == Some(self.val)

left(self) ==
    CASE self.tag = "Left" -> Some(self.val)
      [] self.tag = "Right" -> None

right(self) ==
    CASE self.tag = "Left" -> None
      [] self.tag = "Right" -> Some(self.val)

(* A faulty flip that relabels only Left. *)
flip_left_only(self) ==
    CASE self.tag = "Left" -> Right(self.val)
      [] self.tag = "Right" -> Right(self.val)

flip(self) ==
    CASE self.tag = "Left" -> Right(self.val)
      [] self.tag = "Right" -> Left(self.val)

(* impl From<Result<R, L>> for Either<L, R> *)
from(r) ==
    CASE r.kind = "Err" -> Left(r.err)
      [] r.kind = "Ok" -> Right(r.val)

(* A faulty into with the opposite convention, Left => Ok. *)
into_swapped(self) ==
    CASE self.tag = "Left" -> [kind |-> "Ok", val |-> self.val]
      [] self.tag = "Right" -> [kind |-> "Err", err |-> self.val]

(* impl Into<Result<R, L>> for Either<L, R> *)
into(self) ==
    CASE self.tag = "Left" -> Err(self.val)
      [] self.tag = "Right" -> Ok(self.val)


(* as_ref and as_mut hand out references to the payload held in place by   *)
(* the union they are called on.  A reference is [loc, mut]: loc names the *)
(* storage it points to ("payload": the active payload of the union), mut  *)
(* says whether it may be written through.                                 *)
Ref(loc, m) == [loc |-> loc, mut |-> m]

as_ref(self) ==
    CASE self.tag = "Left" -> Left(Ref("payload", FALSE))
      [] self.tag = "Right" -> Right(Ref("payload", FALSE))

(* A faulty as_mut that borrows a copy of the payload, not the payload. *)
as_mut_copy(self) ==
    CASE self.tag = "Left" -> Left(Ref("temporary", TRUE))
      [] self.tag = "Right" -> Right(Ref("temporary", TRUE))

as_mut(self) ==
    CASE self.tag = "Left" -> Left(Ref("payload", TRUE))
      [] self.tag = "Right" -> Right(Ref("payload", TRUE))

(* Reading a reference, and the union after a store through one. *)
Deref(u, r) == CASE r.loc = "payload" -> u.val

Store(u, r, v) == IF r.loc = "payload" THEN [u EXCEPT !.val = v] ELSE u

---------------------------------------------------------------------------
(* macro_rules! either: $result, written once with $inner, is compiled    *)
(* against the payload of each variant, borrowed shared; l and r are that  *)
(* expression with $inner bound to the Left and to the Right payload, and  *)
(* only the one of the variant held is evaluated.                          *)
either(value, l, r) ==
    CASE value.tag = "Left" -> l
      [] value.tag = "Right" -> r

(* A faulty either_mut whose second arm rebuilds the union as a Left. *)
either_mut_rebuild(value, l, r) ==
    CASE value.tag = "Left" -> [l EXCEPT !.self = Left(@)]
      [] value.tag = "Right" -> [r EXCEPT !.self = Left(@)]

(* macro_rules! either_mut: as either, with the payload borrowed           *)
(* exclusively.  l and r yield [self, ret, ...]: the payload as the call   *)
(* left it and what the call returned; the payload is updated in place.    *)
either_mut(value, l, r) ==
    CASE value.tag = "Left" -> [l EXCEPT !.self = Left(@)]
      [] value.tag = "Right" -> [r EXCEPT !.self = Right(@)]

---------------------------------------------------------------------------
(* The iterators wrapped in the model: L = Range (0..10 of the test iter), *)
(* R = an iterator owning a finite sequence ([0, 1, 2], []).  Both are     *)
(* double-ended and exact-size.                                            *)

Hint(n) == [lower |-> n, upper |-> Some(n)]

Range(a, b) == [start |-> a, end |-> b]

Range_next(self) ==
    IF self.start < self.end
    THEN [self |-> [self EXCEPT !.start = @ + 1], ret |-> Some(self.start)]
    ELSE [self |-> self, ret |-> None]

Range_next_back(self) ==
    IF self.start < self.end
    THEN [self |-> [self EXCEPT !.end = @ - 1], ret |-> Some(self.end - 1)]
    ELSE [self |-> self, ret |-> None]

Range_size_hint(self) ==
    IF self.start < self.end THEN Hint(self.end - self.start) ELSE Hint(0)

Range_len(self) == IF self.start < self.end THEN self.end - self.start ELSE 0

IntoIter(s) == [items |-> s]

IntoIter_next(self) ==
    IF self.items # << >>
    THEN [self |-> IntoIter(Tail(self.items)), ret |-> Some(Head(self.items))]
    ELSE [self |-> self, ret |-> None]

IntoIter_next_back(self) ==
    IF self.items # << >>
    THEN [self |-> IntoIter(SubSeq(self.items, 1, Len(self.items) - 1)),
          ret |-> Some(self.items[Len(self.items)])]
    ELSE [self |-> self, ret |-> None]

IntoIter_size_hint(self) == Hint(Len(self.items))

IntoIter_len(self) == Len(self.items)

---------------------------------------------------------------------------
(* impl Iterator / DoubleEndedIterator / ExactSizeIterator for Either *)

(* A faulty next that advances from the back. *)
next_from_back(self) ==
    either_mut(self, Range_next_back(self.val),
               IntoIter_next_back(self.val))

next(self) == either_mut(self, Range_next(self.val), IntoIter_next(self.val))

(* A size_hint that is not forwarded: the provided method of Iterator. *)
size_hint_provided(self) == [lower |-> 0, upper |-> None]

size_hint(self) ==
    either(self, Range_size_hint(self.val),
           IntoIter_size_hint(self.val))

next_back(self) ==
    either_mut(self, Range_next_back(self.val),
               IntoIter_next_back(self.val))

(* The impl of ExactSizeIterator is empty: len is the trait's provided     *)
(* method, which reads size_hint and asserts that it is exact.             *)
len(self) ==
    LET h == size_hint(self)
    IN  IF h.upper = Some(h.lower)
        THEN [panic |-> FALSE, val |-> h.lower]
        ELSE [panic |-> TRUE]

---------------------------------------------------------------------------
(* The streams wrapped in the model, as in the test read_write: R is an    *)
(* in-memory slice, which never fails; L stands for a stream of the        *)
(* environment (io::stdin(), io::stdout()), which may fail.  The           *)
(* environment's stream is [.., script, calls]: script[i] is the outcome   *)
(* the environment serves to the i-th call made on the stream ("ok" or an  *)
(* io::ErrorKind), calls the number of calls made so far.                  *)

Min(a, b) == IF a < b THEN a ELSE b

Drop(s, n) == SubSeq(s, n + 1, Len(s))

Take(s, n) == SubSeq(s, 1, n)

Outcome(self) ==
    IF self.calls < Len(self.script) THEN self.script[self.calls + 1] ELSE "ok"

Called(self) == [self EXCEPT !.calls = @ + 1]

(* impl Read for &[u8], impl BufRead for &[u8] *)
Slice_read(self, buf) ==
    LET amt == Min(Len(buf), Len(self))
    IN  [self |-> Drop(self, amt),
         buf  |-> Take(self, amt) \o Drop(buf, amt),
         ret  |-> Ok(amt)]

Slice_read_to_end(self, buf) ==
    [self |-> << >>, buf |-> buf \o self, ret |-> Ok(Len(self))]

Slice_fill_buf(self) == [self |-> self, ret |-> Ok(self)]

Slice_consume(self, amt) == [self |-> Drop(self, amt), ret |-> Unit]

(* The environment's readable stream. *)
Stdin(data, script) == [data |-> data, script |-> script, calls |-> 0]

Stdin_read(self, buf) ==
    LET amt == Min(Len(buf), Len(self.data))
    IN  IF Outcome(self) = "ok"
        THEN [self |-> [Called(self) EXCEPT !.data = Drop(@, amt)],
              buf  |-> Take(self.data, amt) \o Drop(buf, amt),
              ret  |-> Ok(amt)]
        ELSE [self |-> Called(self), buf |-> buf, ret |-> Err(Outcome(self))]

Stdin_read_to_end(self, buf) ==
    IF Outcome(self) = "ok"
    THEN [self |-> [Called(self) EXCEPT !.data = << >>],
          buf  |-> buf \o self.data,
          ret  |-> Ok(Len(self.data))]
    ELSE [self |-> Called(self), buf |-> buf, ret |-> Err(Outcome(self))]

Stdin_fill_buf(self) ==
    IF Outcome(self) = "ok"
    THEN [self |-> Called(self), ret |-> Ok(self.data)]
    ELSE [self |-> Called(self), ret |-> Err(Outcome(self))]

Stdin_consume(self, amt) ==
    [self |-> [Called(self) EXCEPT !.data = Drop(@, amt)], ret |-> Unit]

(* impl Write for &mut [u8]: mem is the array the slice was borrowed from  *)
(* (mockbuf), pos the offset at which the slice now starts.                *)
SliceMut(mem) == [mem |-> mem, pos |-> 0]

SliceMut_write(self, data) ==
    LET amt == Min(Len(data), Len(self.mem) - self.pos)
    IN  [self |-> [mem |-> Take(self.mem, self.pos) \o Take(data, amt)
                             \o Drop(self.mem, self.pos + amt),
                   pos |-> self.pos + amt],
         ret  |-> Ok(amt)]

SliceMut_flush(self) == [self |-> self, ret |-> Ok(Unit)]

(* The environment's writable stream. *)
Stdout(script) == [sink |-> << >>, script |-> script, calls |-> 0]

Stdout_write(self, data) ==
    IF Outcome(self) = "ok"
    THEN [self |-> [Called(self) EXCEPT !.sink = @ \o data],
          ret  |-> Ok(Len(data))]
    ELSE [self |-> Called(self), ret |-> Err(Outcome(self))]

Stdout_flush(self) ==
    IF Outcome(self) = "ok"
    THEN [self |-> Called(self), ret |-> Ok(Unit)]
    ELSE [self |-> Called(self), ret |-> Err(Outcome(self))]

---------------------------------------------------------------------------
(* impl Read / BufRead / Write for Either *)

(* A faulty read that copies the bytes out and leaves the stream where  *)
(* it was.                                                              *)
read_no_advance(self, buf) ==
    either_mut(self,
               [Stdin_read(self.val, buf) EXCEPT !.self = self.val],
               [Slice_read(self.val, buf) EXCEPT !.self = self.val])

read(self, buf) ==
    either_mut(self, Stdin_read(self.val, buf),
                     Slice_read(self.val, buf))

read_to_end(self, buf) ==
    either_mut(self, Stdin_read_to_end(self.val, buf),
                     Slice_read_to_end(self.val, buf))

fill_buf(self) ==
    either_mut(self, Stdin_fill_buf(self.val),
               Slice_fill_buf(self.val))

consume(self, amt) ==
    either_mut(self, Stdin_consume(self.val, amt),
                     Slice_consume(self.val, amt))

(* A faulty write that calls the stream again when it was interrupted. *)
write_retry(self, buf) ==
    LET r == either_mut(self, Stdout_write(self.val, buf),
                              SliceMut_write(self.val, buf))
    IN  IF r.ret = Err("Interrupted")
        THEN either_mut(r.self, Stdout_write(r.self.val, buf),
                                SliceMut_write(r.self.val, buf))
        ELSE r

write(self, buf) ==
    either_mut(self, Stdout_write(self.val, buf),
                     SliceMut_write(self.val, buf))

(* A flush that is not forwarded. *)
flush_nothing(self) == [self |-> self, ret |-> Ok(Unit)]

flush(self) ==
    either_mut(self, Stdout_flush(self.val),
               SliceMut_flush(self.val))

---------------------------------------------------------------------------
(* impl AsRef<Target> / AsMut<Target> for Either, with L = Vec<u8>,        *)
(* R = Box<[u8]> and Target = [u8]: both coerce to their own contents.     *)

Vec_as_ref(self) == Ref("payload", FALSE)

Box_as_ref(self) == Ref("payload", FALSE)

Vec_as_mut(self) == [self |-> self, ret |-> Ref("payload", TRUE)]

Box_as_mut(self) == [self |-> self, ret |-> Ref("payload", TRUE)]

AsRef_as_ref(self) == either(self, Vec_as_ref(self.val), Box_as_ref(self.val))

AsMut_as_mut(self) ==
    either_mut(self, Vec_as_mut(self.val),
               Box_as_mut(self.val))

---------------------------------------------------------------------------
(* The values the tests build their unions and buffers from. *)

RangeEnd == 10

MockDataLen == 256

MockByte == 255

BufLen == 16

MockBufLen == 256

WriteByte == 1

(* The inputs of the model. *)

SeqsUpTo(S, n) == UNION {[1..k -> S] : k \in 0..n}

Repeat(b, n) == [i \in 1..n |-> b]

Payloads == 0..MaxPayload

Elems == 0..(MaxLen - 1)

Bytes == {WriteByte, MockByte}

ErrKinds == {"Interrupted", "Other"}

Scripts == SeqsUpTo({"ok"} \cup ErrKinds, MaxCalls)

ReadBufs == {Repeat(0, k) : k \in (0..MaxBuf) \cup {BufLen}}

VecBufs == {<< >>, <<WriteByte>>}

Amounts == (0..MaxBuf) \cup {BufLen}

WriteBufs(sink) ==
    IF Len(sink) > MaxSink
    THEN {Repeat(WriteByte, BufLen)}
    ELSE SeqsUpTo(Bytes, MaxBuf) \cup {Repeat(WriteByte, BufLen)}

Families == {"value", "coerce", "iter", "read", "write"}

(* The unions a program of each instantiation can construct. *)
NewLeft(f, scripts) ==
    CASE f = "value"  -> {Left(v) : v \in Payloads}
      [] f = "coerce" -> {Left(s) : s \in SeqsUpTo(Bytes, MaxSrc)}
      [] f = "iter"   -> {Left(Range(a, b)) : a, b \in 0..MaxRange}
                           \cup {Left(Range(0, RangeEnd))}
      [] f = "read"   -> {Left(Stdin(d, s)) :
                              d \in SeqsUpTo(Bytes, MaxSrc), s \in scripts}
      [] f = "write"  -> {Left(Stdout(s)) : s \in scripts}

NewRight(f) ==
    CASE f = "value"  -> {Right(v) : v \in Payloads}
      [] f = "coerce" -> {Right(s) : s \in SeqsUpTo(Bytes, MaxSrc)}
      [] f = "iter"   -> {Right(IntoIter(s)) : s \in SeqsUpTo(Elems, MaxLen)}
      [] f = "read"   -> {Right(s) : s \in SeqsUpTo(Bytes, MaxSrc)}
                           \cup {Right(Repeat(MockByte, MockDataLen))}
      [] f = "write"  -> {Right(SliceMut(Repeat(0, n))) :
                              n \in (0..MaxSink) \cup {MockBufLen}}

NoLog(f) == IF f = "iter" THEN [front |-> << >>, back |-> << >>] ELSE << >>

NoView == [kind |-> "none"]

---------------------------------------------------------------------------
(* The state machine.  e is the union the program holds, orig the value it *)
(* was last constructed or assigned as, log what the forwarded calls have  *)
(* moved so far (elements yielded, bytes read, bytes accepted), last the   *)
(* last call with its receiver, argument and result, view the borrow of e  *)
(* that is outstanding.                                                    *)

Init ==
    /\ fam \in Families
    /\ \/ e \in NewLeft(fam, Scripts)
       \/ e \in NewRight(fam)
    /\ orig = e
    /\ log = NoLog(fam)
    /\ last = [op |-> "new"]
    /\ view = NoView

Called_(op, arg, res) == [op |-> op, pre |-> e, arg |-> arg, res |-> res]

(* The environment serves a bounded number of calls. *)
Budget == e.tag = "Left" => e.val.calls < MaxCalls

(* e = r: the whole union is replaced (test basic).  The stream of a    *)
(* union assigned later is one the environment serves without failures. *)
Assign ==
    /\ view = NoView
    /\ \/ e' \in NewLeft(fam, {<< >>})
       \/ e' \in NewRight(fam)
    /\ orig' = e'
    /\ log' = NoLog(fam)
    /\ last' = [op |-> "assign"]
    /\ UNCHANGED <<fam, view>>

Call_is_left ==
    /\ view = NoView
    /\ last' = Called_("is_left", Unit, is_left(e))
    /\ UNCHANGED <<fam, e, orig, log, view>>

Call_is_right ==
    /\ view = NoView
    /\ last' = Called_("is_right", Unit, is_right(e))
    /\ UNCHANGED <<fam, e, orig, log, view>>

(* left, right, flip and into take self by value: the model calls them on  *)
(* unions of Copy payloads, which stay usable.                             *)
Call_left ==
    /\ fam = "value" /\ view = NoView
    /\ last' = Called_("left", Unit, left(e))
    /\ UNCHANGED <<fam, e, orig, log, view>>

Call_right ==
    /\ fam = "value" /\ view = NoView
    /\ last' = Called_("right", Unit, right(e))
    /\ UNCHANGED <<fam, e, orig, log, view>>

Call_flip ==
    /\ fam = "value" /\ view = NoView
    /\ last' = Called_("flip", Unit, flip(e))
    /\ UNCHANGED <<fam, e, orig, log, view>>

Call_into ==
    /\ fam = "value" /\ view = NoView
    /\ last' = Called_("into", Unit, into(e))
    /\ UNCHANGED <<fam, e, orig, log, view>>

Call_from ==
    /\ fam = "value" /\ view = NoView
    /\ \E v \in Payloads :
         \/ last' = Called_("from", Ok(v), from(Ok(v)))
         \/ last' = Called_("from", Err(v), from(Err(v)))
    /\ UNCHANGED <<fam, e, orig, log, view>>

Call_as_ref ==
    /\ fam = "value" /\ view = NoView
    /\ view' = [kind |-> "view", v |-> as_ref(e)]
    /\ last' = Called_("as_ref", Unit, view'.v)
    /\ UNCHANGED <<fam, e, orig, log>>

Call_as_mut ==
    /\ fam = "value" /\ view = NoView
    /\ view' = [kind |-> "view", v |-> as_mut(e)]
    /\ last' = Called_("as_mut", Unit, view'.v)
    /\ UNCHANGED <<fam, e, orig, log>>

Call_AsRef_as_ref ==
    /\ fam = "coerce" /\ view = NoView
    /\ view' = [kind |-> "target", r |-> AsRef_as_ref(e)]
    /\ last' = Called_("AsRef::as_ref", Unit, view'.r)
    /\ UNCHANGED <<fam, e, orig, log>>

Call_AsMut_as_mut ==
    /\ fam = "coerce" /\ view = NoView
    /\ LET r == AsMut_as_mut(e)
       IN  /\ e' = r.self
           /\ view' = [kind |-> "target", r |-> r.ret]
           /\ last' = Called_("AsMut::as_mut", Unit, r)
    /\ UNCHANGED <<fam, orig, log>>

Borrowed == IF view.kind = "view" THEN view.v.val ELSE view.r

(* *r = v through the exclusive reference that is outstanding. *)
WriteThrough ==
    /\ view # NoView
    /\ Borrowed.mut
    /\ \E v \in IF fam = "value" THEN Payloads ELSE [1..Len(e.val) -> Bytes] :
         /\ e' = Store(e, Borrowed, v)
         /\ last' = [op |-> "store", pre |-> e, arg |-> v]
    /\ UNCHANGED <<fam, orig, log, view>>

(* The borrow ends. *)
Release ==
    /\ view # NoView
    /\ view' = NoView
    /\ last' = [op |-> "release", pre |-> e]
    /\ UNCHANGED <<fam, e, orig, log>>

Yield(side, ret) ==
    IF ret.some
    THEN IF side = "front"
         THEN [log EXCEPT !.front = Append(@, ret.val)]
         ELSE [log EXCEPT !.back = Append(@, ret.val)]
    ELSE log

Call_next ==
    /\ fam = "iter" /\ view = NoView
    /\ LET r == next(e)
       IN  /\ e' = r.self
           /\ log' = Yield("front", r.ret)
           /\ last' = Called_("next", Unit, r)
    /\ UNCHANGED <<fam, orig, view>>

Call_next_back ==
    /\ fam = "iter" /\ view = NoView
    /\ LET r == next_back(e)
       IN  /\ e' = r.self
           /\ log' = Yield("back", r.ret)
           /\ last' = Called_("next_back", Unit, r)
    /\ UNCHANGED <<fam, orig, view>>

Call_size_hint ==
    /\ fam = "iter" /\ view = NoView
    /\ last' = Called_("size_hint", Unit, size_hint(e))
    /\ UNCHANGED <<fam, e, orig, log, view>>

Call_len ==
    /\ fam = "iter" /\ view = NoView
    /\ last' = Called_("len", Unit, len(e))
    /\ UNCHANGED <<fam, e, orig, log, view>>

Call_read ==
    /\ fam = "read" /\ view = NoView /\ Budget
    /\ \E buf \in ReadBufs :
         LET r == read(e, buf)
         IN  /\ e' = r.self
             /\ log' = log \o (IF r.ret.kind = "Ok"
                               THEN Take(r.buf, r.ret.val) ELSE << >>)
             /\ last' = Called_("read", buf, r)
    /\ UNCHANGED <<fam, orig, view>>

Call_read_to_end ==
    /\ fam = "read" /\ view = NoView /\ Budget
    /\ \E buf \in VecBufs :
         LET r == read_to_end(e, buf)
         IN  /\ e' = r.self
             /\ log' = log \o Drop(r.buf, Len(buf))
             /\ last' = Called_("read_to_end", buf, r)
    /\ UNCHANGED <<fam, orig, view>>

(* The slice fill_buf returns borrows the stream; the model keeps its      *)
(* contents and lets the borrow end with the call.                         *)
Call_fill_buf ==
    /\ fam = "read" /\ view = NoView /\ Budget
    /\ LET r == fill_buf(e)
       IN  /\ e' = r.self
           /\ last' = Called_("fill_buf", Unit, r)
    /\ UNCHANGED <<fam, orig, log, view>>

Unread(u) == IF u.tag = "Left" THEN u.val.data ELSE u.val

(* consume(amt): amt is at most the length of the buffer fill_buf gave. *)
Call_consume ==
    /\ fam = "read" /\ view = NoView /\ Budget
    /\ \E amt \in Amounts :
         /\ amt <= Len(Unread(e))
         /\ LET r == consume(e, amt)
            IN  /\ e' = r.self
                /\ log' = log \o Take(Unread(e), amt)
                /\ last' = Called_("consume", amt, r)
    /\ UNCHANGED <<fam, orig, view>>

Sink(u) == IF u.tag = "Left" THEN u.val.sink ELSE u.val.mem

Call_write ==
    /\ fam = "write" /\ view = NoView /\ Budget
    /\ \E buf \in WriteBufs(Sink(e)) :
         LET r == write(e, buf)
         IN  /\ e' = r.self
             /\ log' = log \o (IF r.ret.kind = "Ok"
                               THEN Take(buf, r.ret.val) ELSE << >>)
             /\ last' = Called_("write", buf, r)
    /\ UNCHANGED <<fam, orig, view>>

Call_flush ==
    /\ fam = "write" /\ view = NoView /\ Budget
    /\ LET r == flush(e)
       IN  /\ e' = r.self
           /\ last' = Called_("flush", Unit, r)
    /\ UNCHANGED <<fam, orig, log, view>>

Next ==
    \/ Assign
    \/ Call_is_left
    \/ Call_is_right
    \/ Call_left
    \/ Call_right
    \/ Call_flip
    \/ Call_into
    \/ Call_from
    \/ Call_as_ref
    \/ Call_as_mut
    \/ Call_AsRef_as_ref
    \/ Call_AsMut_as_mut
    \/ WriteThrough
    \/ Release
    \/ Call_next
    \/ Call_next_back
    \/ Call_size_hint
    \/ Call_len
    \/ Call_read
    \/ Call_read_to_end
    \/ Call_fill_buf
    \/ Call_consume
    \/ Call_write
    \/ Call_flush

Spec == Init /\ [][Next]_vars

---------------------------------------------------------------------------
(* The properties.  last holds the most recent call: its receiver before   *)
(* the call (pre), its argument (arg) and what it returned (res); e is the *)
(* union after it.                                                         *)

(* C1: Left(v) reports is_left() = true and is_right() = false, left()     *)
(* yields Some(v) and right() yields None; Right(v) reports the opposite,  *)
(* left() yields None and right() yields Some(v).  Exactly one of is_left  *)
(* and is_right is true of every union, and extracting the variant that is *)
(* not held yields None.                                                   *)
C1_Accessors ==
    /\ last.op = "is_left" => last.res = (last.pre.tag = "Left")
    /\ last.op = "is_right" => last.res = (last.pre.tag = "Right")
    /\ last.op = "left" =>
         last.res = IF last.pre.tag = "Left" THEN Some(last.pre.val) ELSE None
    /\ last.op = "right" =>
         last.res = IF last.pre.tag = "Right" THEN Some(last.pre.val) ELSE None
    /\ is_left(e) # is_right(e)
    /\ left(e).some # right(e).some

(* left() was called on a Right: it returned None. *)
C1_Witness ==
    /\ last.op = "left"
    /\ last.pre.tag = "Right"
    /\ last.res = None
    /\ right(last.pre) = Some(last.pre.val)

(* C2: from and into are inverses under Err <-> Left, Ok <-> Right:        *)
(* from(Err(x)) = Left(x) and converts back to Err(x), from(Ok(o)) =       *)
(* Right(o) and converts back to Ok(o), and a union converted to a Result  *)
(* and back is the union it was.                                           *)
C2_ResultRoundTrip ==
    /\ last.op = "from" =>
         /\ last.arg.kind = "Err" => last.res = Left(last.arg.err)
         /\ last.arg.kind = "Ok" => last.res = Right(last.arg.val)
         /\ into(last.res) = last.arg
    /\ last.op = "into" =>
         /\ last.pre.tag = "Left" => last.res = Err(last.pre.val)
         /\ last.pre.tag = "Right" => last.res = Ok(last.pre.val)
         /\ from(last.res) = last.pre

(* A failure value was converted to a union, which converts back to it. *)
C2_Witness ==
    /\ last.op = "from"
    /\ last.arg = Err(1)
    /\ last.res = Left(1)
    /\ into(last.res) = Err(1)

(* C3: flip(Left(a)) = Right(a) and flip(Right(a)) = Left(a), the payload  *)
(* untouched, and flipping twice gives the union back.                     *)
C3_FlipInvolution ==
    last.op = "flip" =>
      /\ last.pre.tag = "Left" => last.res = Right(last.pre.val)
      /\ last.pre.tag = "Right" => last.res = Left(last.pre.val)
      /\ flip(last.res) = last.pre

(* A Right was flipped. *)
C3_Witness ==
    /\ last.op = "flip"
    /\ last.pre = Right(2)
    /\ last.res = Left(2)

(* The operation of the variant that is held, called on the payload       *)
(* itself, with no union around it.                                        *)
Direct(op, u, arg) ==
    IF u.tag = "Left"
    THEN CASE op = "next"        -> Range_next(u.val)
           [] op = "next_back"   -> Range_next_back(u.val)
           [] op = "read"        -> Stdin_read(u.val, arg)
           [] op = "read_to_end" -> Stdin_read_to_end(u.val, arg)
           [] op = "fill_buf"    -> Stdin_fill_buf(u.val)
           [] op = "consume"     -> Stdin_consume(u.val, arg)
           [] op = "write"       -> Stdout_write(u.val, arg)
           [] op = "flush"       -> Stdout_flush(u.val)
    ELSE CASE op = "next"        -> IntoIter_next(u.val)
           [] op = "next_back"   -> IntoIter_next_back(u.val)
           [] op = "read"        -> Slice_read(u.val, arg)
           [] op = "read_to_end" -> Slice_read_to_end(u.val, arg)
           [] op = "fill_buf"    -> Slice_fill_buf(u.val)
           [] op = "consume"     -> Slice_consume(u.val, arg)
           [] op = "write"       -> SliceMut_write(u.val, arg)
           [] op = "flush"       -> SliceMut_flush(u.val)

Reverse(s) == [i \in 1..Len(s) |-> s[Len(s) + 1 - i]]

(* The elements an iterator has yet to yield, front to back. *)
Contents(u) ==
    IF u.tag = "Left"
    THEN IF u.val.start < u.val.end
         THEN [i \in 1..(u.val.end - u.val.start) |-> u.val.start + i - 1]
         ELSE << >>
    ELSE u.val.items

(* C4: a union of two iterators behaves as the iterator it holds: next,    *)
(* next_back and size_hint return what the same call on the held iterator  *)
(* returns and leave it as that call leaves it; the elements yielded from  *)
(* the front, those still to come and those yielded from the back are, in  *)
(* order, the sequence the union was built around ([0, 1, 2] yields 0, 1,  *)
(* 2 and then None, [] yields None at once, 0..10 has 9 elements left      *)
(* after its first), so no element comes from anywhere else.               *)
C4_IterationEquivalence ==
    fam = "iter" =>
      /\ last.op \in {"next", "next_back"} =>
           LET d == Direct(last.op, last.pre, Unit)
           IN  /\ last.res.ret = d.ret
               /\ last.res.self = [tag |-> last.pre.tag, val |-> d.self]
               /\ e = last.res.self
      /\ last.op = "next" =>
           last.res.ret = IF Contents(last.pre) = << >>
                          THEN None ELSE Some(Head(Contents(last.pre)))
      /\ last.op = "size_hint" =>
           /\ last.res = IF last.pre.tag = "Left"
                         THEN Range_size_hint(last.pre.val)
                         ELSE IntoIter_size_hint(last.pre.val)
           /\ last.res = Hint(Len(Contents(e)))
      /\ log.front \o Contents(e) \o Reverse(log.back) = Contents(orig)

(* [0, 1, 2] was wrapped and iterated to exhaustion. *)
C4_Witness ==
    /\ fam = "iter"
    /\ orig = Right(IntoIter(<<0, 1, 2>>))
    /\ log.front = <<0, 1, 2>>
    /\ last.op = "next"
    /\ last.res.ret = None

(* C5: the exact remaining count the union reports, after any advances, is *)
(* the one the held iterator reports, and it is obtained from the held     *)
(* iterator (through its size_hint), not made up by the union.             *)
C5_ExactSizeForwarded ==
    last.op = "len" =>
      /\ ~last.res.panic
      /\ last.res.val = IF last.pre.tag = "Left"
                        THEN Range_len(last.pre.val)
                        ELSE IntoIter_len(last.pre.val)
      /\ last.res.val = Len(Contents(e))

(* 0..10 was advanced once and then reports 9. *)
C5_Witness ==
    /\ last.op = "len"
    /\ orig = Left(Range(0, RangeEnd))
    /\ log = [front |-> <<0>>, back |-> << >>]
    /\ last.res = [panic |-> FALSE, val |-> RangeEnd - 1]

(* C6: reading through a union that holds an in-memory source of n bytes   *)
(* is reading the source: read into a k-byte buffer returns min(k, bytes   *)
(* left), puts the next bytes of the source, in order, at the front of the *)
(* buffer and advances the source by that count; read_to_end is the held   *)
(* stream's read_to_end: it appends the bytes not yet read and returns     *)
(* their count.                                                            *)
C6_ReadForwarded ==
    fam = "read" =>
      /\ last.op \in {"read", "read_to_end"} =>
           LET d == Direct(last.op, last.pre, last.arg)
           IN  /\ last.res = [d EXCEPT !.self = [tag |-> last.pre.tag, val |-> @]]
               /\ e = last.res.self
      /\ (last.op = "read" /\ last.pre.tag = "Right") =>
           LET n == Min(Len(last.arg), Len(last.pre.val))
           IN  /\ last.res.ret = Ok(n)
               /\ Take(last.res.buf, n) = Take(last.pre.val, n)
               /\ Drop(last.res.buf, n) = Drop(last.arg, n)
               /\ e.val = Drop(last.pre.val, n)
      /\ (last.op = "read_to_end" /\ last.pre.tag = "Right") =>
           /\ last.res.ret = Ok(Len(last.pre.val))
           /\ last.res.buf = last.arg \o last.pre.val
           /\ e.val = << >>
      /\ orig.tag = "Right" => log \o e.val = orig.val

(* 256 bytes of 0xFF were read into a 16-byte buffer. *)
C6_Witness ==
    /\ last.op = "read"
    /\ last.pre = Right(Repeat(MockByte, MockDataLen))
    /\ last.arg = Repeat(0, BufLen)
    /\ last.res.ret = Ok(BufLen)
    /\ last.res.buf = Repeat(MockByte, BufLen)
    /\ Len(e.val) = MockDataLen - BufLen

(* C7: writing through a union that holds a fixed-capacity sink is writing *)
(* the sink: write of a k-byte buffer returns min(k, room left), and after *)
(* any writes the sink holds the accepted bytes, in the order written,     *)
(* from its first byte on; flush is the held stream's flush and returns    *)
(* what it returns.                                                        *)
C7_WriteForwarded ==
    fam = "write" =>
      /\ last.op \in {"write", "flush"} =>
           LET d == Direct(last.op, last.pre, last.arg)
           IN  /\ last.res = [d EXCEPT !.self = [tag |-> last.pre.tag, val |-> @]]
               /\ e = last.res.self
      /\ (last.op = "write" /\ last.pre.tag = "Right") =>
           last.res.ret = Ok(Min(Len(last.arg),
                                 Len(last.pre.val.mem) - last.pre.val.pos))
      /\ (last.op = "flush" /\ last.pre.tag = "Right") =>
           /\ last.res.ret = Ok(Unit)
           /\ e = last.pre
      /\ orig.tag = "Right" =>
           /\ e.val.pos = Len(log)
           /\ Take(e.val.mem, Len(log)) = log
           /\ Drop(e.val.mem, Len(log)) = Drop(orig.val.mem, Len(log))
           /\ Len(e.val.mem) = Len(orig.val.mem)

(* A 16-byte buffer was written into a 256-byte sink. *)
C7_Witness ==
    /\ last.op = "write"
    /\ last.pre = Right(SliceMut(Repeat(0, MockBufLen)))
    /\ last.arg = Repeat(WriteByte, BufLen)
    /\ last.res.ret = Ok(BufLen)
    /\ Take(e.val.mem, BufLen) = last.arg

(* C8: a failure of the held stream's read, read_to_end, fill_buf, write   *)
(* or flush is what the union returns, unchanged; the union calls the held *)
(* stream once for each call made on it; and the union returns no failure  *)
(* that the held stream did not return.                                    *)
C8_FailuresVerbatim ==
    last.op \in {"read", "read_to_end", "fill_buf", "write", "flush"} =>
      LET d == Direct(last.op, last.pre, last.arg)
      IN  /\ last.res.ret = d.ret
          /\ d.ret.kind = "Err" =>
               /\ last.res.ret = Err(Outcome(last.pre.val))
               /\ last.res.ret.err \in ErrKinds
          /\ last.pre.tag = "Left" =>
               last.res.self.val.calls = last.pre.val.calls + 1
          /\ last.pre.tag = "Right" => last.res.ret.kind = "Ok"

(* The environment interrupted a read; the union returned that failure. *)
C8_Witness ==
    /\ last.op = "read"
    /\ last.pre.tag = "Left"
    /\ last.res.ret = Err("Interrupted")
    /\ e.val.calls = last.pre.val.calls + 1

(* C9: as_ref and as_mut give a view of the same variant whose reference   *)
(* is to the payload of the original; left() and right() of the view are   *)
(* present when those of the original are, and refer to its payload; the   *)
(* original keeps its variant and payload; a store through the reference   *)
(* as_mut gave changes the payload of the original and not its variant.    *)
C9_BorrowedViews ==
    /\ view.kind = "view" =>
         /\ view.v.tag = e.tag
         /\ view.v.val.loc = "payload"
         /\ Deref(e, view.v.val) = e.val
         /\ left(view.v).some = left(e).some
         /\ right(view.v).some = right(e).some
         /\ e.tag = orig.tag
    /\ last.op \in {"as_ref", "as_mut"} => e = last.pre
    /\ last.op = "as_mut" => last.res.val.mut
    /\ (fam = "value" /\ last.op = "store") =>
         /\ e.tag = last.pre.tag
         /\ e.val = last.arg

(* e = Right(2): e.as_mut().right() is a reference to the 2, and 0 was     *)
(* stored through it.                                                      *)
C9_Witness ==
    /\ fam = "value"
    /\ view.kind = "view"
    /\ last.op = "store"
    /\ last.pre = Right(2)
    /\ right(view.v).some
    /\ e = Right(0)

Forwarded ==
    {"next", "next_back", "read", "read_to_end", "fill_buf", "consume",
     "write", "flush"}

(* C10: the variant a union holds is the one it was constructed or last    *)
(* assigned with: no forwarded call (next, next_back, size_hint, read,     *)
(* read_to_end, fill_buf, consume, write, flush, AsRef::as_ref,            *)
(* AsMut::as_mut), whether it yields, is exhausted or fails, changes what  *)
(* is_left() reports, and each call acts on the payload of that variant.   *)
C10_VariantStable ==
    /\ e.tag = orig.tag
    /\ is_left(e) = is_left(orig)
    /\ last.op \notin {"new", "assign"} => e.tag = last.pre.tag
    /\ last.op \in Forwarded =>
         /\ last.res.self.tag = last.pre.tag
         /\ last.res.self.val = Direct(last.op, last.pre, last.arg).self
    /\ last.op = "AsMut::as_mut" => last.res.self = last.pre

(* A Right was exhausted from the back and next_back() called on it again. *)
C10_Witness ==
    /\ last.op = "next_back"
    /\ last.pre.tag = "Right"
    /\ last.res.ret = None
    /\ e.tag = "Right"
    /\ Len(log.front) + Len(log.back) > 0

=============================================================================
